---- MODULE Spec2Model ----
(***************************************************************************)
(* log-debounce: debounced logging macros for the `log` crate.             *)
(*                                                                         *)
(* Every textual invocation of a <level>_debounce! macro expands to a      *)
(* block that declares its own `static LAST: LazyLock<Mutex<Option<        *)
(* Instant>>>`, locks it, reads the monotonic clock, decides whether to    *)
(* log, records the time and invokes log::<level>! while the guard is      *)
(* still alive.  <level>_once! is <level>_debounce!(Duration::MAX, ..).    *)
(*                                                                         *)
(* The model runs a fixed set of threads over three call sites.  Time is   *)
(* an abstract monotonic clock; a duration is a number of clock units.     *)
(*                                                                         *)
(* A call is "allowed" when its should_log is true, that is when the log   *)
(* macro is invoked for it; the log macro is the crate's boundary: it      *)
(* evaluates its formatting arguments and hands the record to the logger,  *)
(* and either of the two may panic.  hist records, per call site, every    *)
(* call in the order the calls were decided (lock order).                  *)
(***************************************************************************)
EXTENDS Integers, Sequences, FiniteSets, TLC

\* ---------------------------------------------------------------- bounds
NumThreads == 2
MaxClock == 2
MaxCalls == 2
MaxOnceCalls == 5
MaxWindowClock == 40
MaxWindowCalls == 4

\* Duration::MAX in clock units: larger than any span the clock can cover.
DurationMax == 1000000

\* Duration::from_secs(30), the interval of the documented example, with
\* the clock counted in seconds.
ThirtySeconds == 30

Threads == 1..NumThreads
None == -1
NoThread == 0

\* The call sites of the modelled program: one warn_debounce! and one
\* info_once! written on the same source line, and a second info_once!
\* on the next line (the two successive invocations of test_once_macro).
Sites == {"warnDebounce", "infoOnce1", "infoOnce2"}

Line(s) == IF s = "infoOnce2" THEN 321 ELSE 320

Level(s) == IF s = "warnDebounce" THEN "warn" ELSE "info"

IsOnce(s) == s \in {"infoOnce1", "infoOnce2"}

\* Mutant: "once" implemented with a long but finite interval.
OnceDurationFinite == MaxClock

\* <level>_once! passes std::time::Duration::MAX as $duration.
OnceDuration == DurationMax

\* The $duration expression a call at site s may pass.
Durations(s) == IF IsOnce(s) THEN {OnceDuration} ELSE {0, 1, DurationMax}

\* Mutant: one gate per source line instead of one per expansion.
GateOfLine(s) == IF Line(s) = 320 THEN "warnDebounce" ELSE s

\* The gate (static LAST) a call site is bound to: each macro expansion
\* declares its own static inside its own block.
GateOf(s) == s

VARIABLES
    clock,       \* the monotonic clock Instant::now() reads
    last,        \* gate -> None or the Instant stored in the Mutex
    poisoned,    \* gate -> the Mutex's poison flag
    holder,      \* gate -> the thread holding the Mutex, or NoThread
    pc,          \* thread -> position inside the macro expansion
    site,        \* thread -> call site of the current / latest call
    dur,         \* thread -> $duration of the current call
    now,         \* thread -> local `now` (None before it is read)
    should_log,  \* thread -> local `should_log`
    evaluated,   \* thread -> the formatting arguments of this call were evaluated
    ret,         \* thread -> how the latest finished call came back
    hist,        \* site -> the calls that reached a decision, in order
    sink,        \* site -> the records handed to the logger, in order
    calls        \* number of calls started

vars == <<clock, last, poisoned, holder, pc, site, dur, now,
          should_log, evaluated, ret, hist, sink, calls>>

\* ------------------------------------------------------- pure functions

\* Instant::duration_since: saturates to zero when `earlier` is later.
DurationSince(n, earlier) == IF n >= earlier THEN n - earlier ELSE 0

\* Mutants of ShouldLog: `>` for `>=`, `<=` for `>=`, unwrap_or(false).
ShouldLogStrict(l, n, d) == IF l = None THEN TRUE ELSE DurationSince(n, l) > d

ShouldLogInverted(l, n, d) == IF l = None THEN TRUE ELSE DurationSince(n, l) <= d

ShouldLogUnwrapFalse(l, n, d) == IF l = None THEN FALSE ELSE DurationSince(n, l) >= d

\* Mutant: the interval of the call is ignored for a fixed one.
ShouldLogFixedInterval(l, n, d) == IF l = None THEN TRUE ELSE DurationSince(n, l) >= 1

\* last.map(|l| now.duration_since(l) >= $duration).unwrap_or(true)
ShouldLog(l, n, d) == IF l = None THEN TRUE ELSE DurationSince(n, l) >= d

\* Mutant: a lock that recovers the guard from a PoisonError.
LockIsOkRecover(g) == TRUE

\* `if let Ok(mut last) = LAST.lock()`: the pattern matches unless the
\* Mutex is poisoned.
LockIsOk(g) == ~poisoned[g]

\* Mutant: no mutual exclusion around the check and the update.
CanAcquireRacy(g) == TRUE

\* Mutex::lock returns only once no other thread holds the Mutex.
CanAcquire(g) == holder[g] = NoThread

\* Mutant: the log macro written after the `if should_log` block.
LogInvokedAlways(b) == TRUE

\* `if should_log { *last = Some(now); log::<level>!(..) }`: the log macro,
\* and with it the evaluation of its arguments, runs only in that branch.
LogInvoked(b) == b

\* Mutant: the timestamp written on every call, before the `if`.
TimestampUpdatedAlways(b) == TRUE

\* `if should_log { *last = Some(now); .. }`: the stored Instant is
\* written only in that branch.
TimestampUpdated(b) == b

\* ----------------------------------------------------------------- Init

NoReturn == [site |-> "warnDebounce", res |-> "none", args |-> FALSE]

Init ==
    /\ clock = 0
    /\ last = [g \in Sites |-> None]
    /\ poisoned = [g \in Sites |-> FALSE]
    /\ holder = [g \in Sites |-> NoThread]
    /\ pc = [t \in Threads |-> "idle"]
    /\ site = [t \in Threads |-> "warnDebounce"]
    /\ dur = [t \in Threads |-> 0]
    /\ now = [t \in Threads |-> None]
    /\ should_log = [t \in Threads |-> FALSE]
    /\ evaluated = [t \in Threads |-> FALSE]
    /\ ret = [t \in Threads |-> NoReturn]
    /\ hist = [s \in Sites |-> <<>>]
    /\ sink = [s \in Sites |-> <<>>]
    /\ calls = 0

\* -------------------------------------------------------------- actions

\* Time passes.
Tick ==
    /\ clock < MaxClock
    /\ clock' = clock + 1
    /\ UNCHANGED <<last, poisoned, holder, pc, site, dur, now,
                   should_log, evaluated, ret, hist, sink, calls>>

\* Control of thread t reaches the macro invocation at site s.
Start(t, s, d) ==
    /\ pc[t] = "idle"
    /\ calls' = calls + 1
    /\ pc' = [pc EXCEPT ![t] = "lock"]
    /\ site' = [site EXCEPT ![t] = s]
    /\ dur' = [dur EXCEPT ![t] = d]
    /\ UNCHANGED <<clock, last, poisoned, holder, now, should_log, evaluated,
                   ret, hist, sink>>

\* A program that invokes all three call sites.
Call(t, s, d) ==
    /\ calls < MaxCalls
    /\ Start(t, s, d)

\* A program whose only call site is one info_once!.
OnceCall(t) ==
    /\ calls < MaxOnceCalls
    /\ Start(t, "infoOnce1", OnceDuration)

\* A program whose only call site is one warn_debounce! that always passes
\* thirty seconds, on a clock that is read every five seconds.
WindowTick ==
    /\ clock < MaxWindowClock
    /\ clock' = clock + 5
    /\ UNCHANGED <<last, poisoned, holder, pc, site, dur, now,
                   should_log, evaluated, ret, hist, sink, calls>>

WindowCall(t) ==
    /\ calls < MaxWindowCalls
    /\ Start(t, "warnDebounce", ThirtySeconds)

\* The expansion is left (normally or by unwinding): its locals go out of
\* scope and the caller sees how the call ended.
Leave(t, how) ==
    /\ pc' = [pc EXCEPT ![t] = "idle"]
    /\ ret' = [ret EXCEPT ![t] =
                  [site |-> site[t], res |-> how, args |-> evaluated[t]]]
    /\ dur' = [dur EXCEPT ![t] = 0]
    /\ now' = [now EXCEPT ![t] = None]
    /\ should_log' = [should_log EXCEPT ![t] = FALSE]
    /\ evaluated' = [evaluated EXCEPT ![t] = FALSE]

\* LAST.lock() returns Ok(guard).
LockOk(t) ==
    LET g == GateOf(site[t]) IN
    /\ pc[t] = "lock"
    /\ CanAcquire(g)
    /\ LockIsOk(g)
    /\ holder' = [holder EXCEPT ![g] = t]
    /\ pc' = [pc EXCEPT ![t] = "locked"]
    /\ UNCHANGED <<clock, last, poisoned, site, dur, now, should_log,
                   evaluated, ret, hist, sink, calls>>

\* LAST.lock() returns Err(PoisonError): the `if let` does not match, the
\* guard inside the error is dropped and the expansion ends.
LockPoisoned(t) ==
    LET s == site[t]
        g == GateOf(s) IN
    /\ pc[t] = "lock"
    /\ CanAcquire(g)
    /\ ~LockIsOk(g)
    /\ Leave(t, "lockfail")
    /\ hist' = [hist EXCEPT ![s] =
                   Append(@, [now |-> None, d |-> dur[t], res |-> "lockfail"])]
    /\ UNCHANGED <<clock, last, poisoned, holder, site, sink, calls>>

\* let now = Instant::now();
\* let should_log = last.map(|l| ..).unwrap_or(true);
Check(t) ==
    LET s == site[t]
        g == GateOf(s)
        b == ShouldLog(last[g], clock, dur[t]) IN
    /\ pc[t] = "locked"
    /\ now' = [now EXCEPT ![t] = clock]
    /\ should_log' = [should_log EXCEPT ![t] = b]
    /\ pc' = [pc EXCEPT ![t] = "checked"]
    /\ hist' = [hist EXCEPT ![s] =
                   Append(@, [now |-> clock, d |-> dur[t],
                              res |-> IF b THEN "emit" ELSE "suppress"])]
    /\ UNCHANGED <<clock, last, poisoned, holder, site, dur, evaluated, ret,
                   sink, calls>>

\* if should_log { *last = Some(now); <log macro> } -- up to the point
\* where the log macro starts; when the branch is not taken the guard is
\* dropped and the call returns.
Branch(t) ==
    LET g == GateOf(site[t]) IN
    /\ pc[t] = "checked"
    /\ last' = IF TimestampUpdated(should_log[t])
                THEN [last EXCEPT ![g] = now[t]] ELSE last
    /\ IF LogInvoked(should_log[t])
         THEN /\ pc' = [pc EXCEPT ![t] = "args"]
              /\ UNCHANGED <<holder, ret, dur, now, should_log, evaluated>>
         ELSE /\ holder' = [holder EXCEPT ![g] = NoThread]
              /\ Leave(t, "suppress")
    /\ UNCHANGED <<clock, poisoned, site, hist, sink, calls>>

\* The log macro evaluates its formatting arguments.
EvalArgs(t) ==
    /\ pc[t] = "args"
    /\ evaluated' = [evaluated EXCEPT ![t] = TRUE]
    /\ pc' = [pc EXCEPT ![t] = "sink"]
    /\ UNCHANGED <<clock, last, poisoned, holder, site, dur, now,
                   should_log, ret, hist, sink, calls>>

\* Mutant: the guard is gone before the log macro runs, so a panic in it
\* leaves the Mutex clean.
UnwindNoPoison(t) ==
    LET g == GateOf(site[t]) IN
    /\ poisoned' = poisoned
    /\ holder' = [holder EXCEPT ![g] = NoThread]
    /\ Leave(t, "panic")

\* A panic unwinds out of the expansion: the guard is dropped while the
\* thread is panicking, which poisons the Mutex.
Unwind(t) ==
    LET g == GateOf(site[t]) IN
    /\ poisoned' = [poisoned EXCEPT ![g] = TRUE]
    /\ holder' = [holder EXCEPT ![g] = NoThread]
    /\ Leave(t, "panic")

\* Evaluating a formatting argument panics.
ArgsPanic(t) ==
    /\ pc[t] = "args"
    /\ Unwind(t)
    /\ UNCHANGED <<clock, last, site, hist, sink, calls>>

\* The logger takes the record and returns; the guard is dropped at the
\* end of the `if let` block.
SinkReturn(t) ==
    LET s == site[t]
        g == GateOf(s) IN
    /\ pc[t] = "sink"
    /\ sink' = [sink EXCEPT ![s] = Append(@, [level |-> Level(s), at |-> now[t]])]
    /\ holder' = [holder EXCEPT ![g] = NoThread]
    /\ Leave(t, IF should_log[t] THEN "emit" ELSE "suppress")
    /\ UNCHANGED <<clock, last, poisoned, site, hist, calls>>

\* The logger takes the record and panics.
SinkPanic(t) ==
    LET s == site[t] IN
    /\ pc[t] = "sink"
    /\ sink' = [sink EXCEPT ![s] = Append(@, [level |-> Level(s), at |-> now[t]])]
    /\ Unwind(t)
    /\ UNCHANGED <<clock, last, site, hist, calls>>

\* While thread t is inside the log macro of a call it was allowed (one of
\* its formatting arguments, or the logger, runs code that reaches the same
\* call site), the nested expansion calls LAST.lock() on the Mutex the
\* thread already holds.  std's Mutex leaves that unspecified but never
\* returns from it: the thread deadlocks ...
ReenterDeadlock(t) ==
    /\ pc[t] \in {"args", "sink"}
    /\ holder[GateOf(site[t])] = t
    /\ calls < MaxCalls
    /\ calls' = calls + 1
    /\ pc' = [pc EXCEPT ![t] = "relock"]
    /\ UNCHANGED <<clock, last, poisoned, holder, site, dur, now,
                   should_log, evaluated, ret, hist, sink>>

\* ... or the nested lock() panics, and the panic unwinds through the
\* outer expansion.
ReenterPanic(t) ==
    /\ pc[t] \in {"args", "sink"}
    /\ holder[GateOf(site[t])] = t
    /\ calls < MaxCalls
    /\ calls' = calls + 1
    /\ Unwind(t)
    /\ UNCHANGED <<clock, last, site, hist, sink>>

\* One step of thread t inside an expansion.
Step(t) ==
    \/ LockOk(t)
    \/ LockPoisoned(t)
    \/ Check(t)
    \/ Branch(t)
    \/ EvalArgs(t)
    \/ ArgsPanic(t)
    \/ SinkReturn(t)
    \/ SinkPanic(t)

Next ==
    \/ Tick
    \/ \E t \in Threads : \E s \in Sites : \E d \in Durations(s) : Call(t, s, d)
    \/ \E t \in Threads : Step(t)

Spec == Init /\ [][Next]_vars

NextOnce ==
    \/ Tick
    \/ \E t \in Threads : OnceCall(t)
    \/ \E t \in Threads : Step(t)

SpecOnce == Init /\ [][NextOnce]_vars

\* The program of Spec with call sites that can be reached again from
\* their own formatting arguments or logger.  A thread that can take a
\* step of its expansion eventually takes one.
NextRecursive ==
    \/ Next
    \/ \E t \in Threads : ReenterDeadlock(t)
    \/ \E t \in Threads : ReenterPanic(t)

SpecRecursive ==
    /\ Init
    /\ [][NextRecursive]_vars
    /\ \A t \in Threads : WF_vars(Step(t))

NextWindow ==
    \/ WindowTick
    \/ \E t \in Threads : WindowCall(t)
    \/ \E t \in Threads : Step(t)

SpecWindow == Init /\ [][NextWindow]_vars

TypeOK ==
    /\ clock \in Nat
    /\ \A g \in Sites : last[g] \in {None} \cup (0..clock)
    /\ \A g \in Sites : holder[g] \in Threads \cup {NoThread}
    /\ \A t \in Threads :
          pc[t] \in {"idle", "lock", "locked", "checked", "args", "sink", "relock"}

\* ------------------------------------------------------ history helpers

\* The calls of h that the gate allowed.
Emits(h) == {i \in 1..Len(h) : h[i].res = "emit"}

\* The calls of h that took the lock and read the clock.
Timed(h) == {i \in 1..Len(h) : h[i].now # None}

\* Index of the latest allowed call before call j, or 0.
LastEmitBefore(h, j) ==
    LET E == {i \in Emits(h) : i < j} IN
    IF E = {} THEN 0 ELSE CHOOSE i \in E : \A k \in E : k <= i

SameInterval(h) == \A i, j \in 1..Len(h) : h[i].d = h[j].d

\* What one gate of its own, fed the calls of h alone, answers to call j.
Alone(h, j) ==
    LET i == LastEmitBefore(h, j) IN
    IF h[j].now = None THEN "lockfail"
    ELSE IF i = 0 \/ h[j].now - h[i].now >= h[j].d THEN "emit"
    ELSE "suppress"

\* ---------------------------------------------------------------- claims

\* C1: a call that reads the clock less than its min_interval after the
\* site's latest allowed call is suppressed, and nothing reaches the
\* logger for it: the log macro runs only for allowed calls and the logger
\* holds at most one record per allowed call.
C1_DebounceWindow ==
    /\ \A s \in Sites : \A j \in Timed(hist[s]) :
          LET h == hist[s]
              i == LastEmitBefore(h, j) IN
          (i # 0 /\ h[j].now - h[i].now < h[j].d) => h[j].res = "suppress"
    /\ \A s \in Sites : Len(sink[s]) <= Cardinality(Emits(hist[s]))
    /\ \A t \in Threads : pc[t] \in {"args", "sink"} => should_log[t]

C1_Witness ==
    \E s \in Sites :
        /\ Len(hist[s]) = 2
        /\ hist[s][1].res = "emit" /\ hist[s][2].res = "suppress"
        /\ hist[s][2].d = 1 /\ hist[s][2].now = hist[s][1].now
        /\ Len(sink[s]) = 1
        /\ \A t \in Threads : pc[t] = "idle"

\* C2: the first call that takes the lock of a fresh gate is allowed,
\* whatever its min_interval, and leaves the gate armed with its own
\* clock reading.
C2_FirstCallProceeds ==
    \A s \in Sites :
        LET h == hist[s]
            inCheck == \E t \in Threads : pc[t] = "checked" /\ site[t] = s IN
        /\ h # <<>> => h[1].res = "emit"
        /\ (h # <<>> /\ ~inCheck) => last[GateOf(s)] # None
        /\ (Len(h) = 1 /\ ~inCheck) => last[GateOf(s)] = h[1].now

C2_Witness ==
    /\ Len(hist["warnDebounce"]) = 1
    /\ hist["warnDebounce"][1].d = 0
    /\ hist["warnDebounce"][1].res = "emit"
    /\ last[GateOf("warnDebounce")] = hist["warnDebounce"][1].now
    /\ Len(hist["infoOnce1"]) = 1
    /\ hist["infoOnce1"][1].d = DurationMax
    /\ hist["infoOnce1"][1].res = "emit"
    /\ last[GateOf("infoOnce1")] = hist["infoOnce1"][1].now

\* C3: a call that reads the clock at least its min_interval after the
\* site's latest allowed call (the boundary included) is allowed, and the
\* gate then holds the clock reading of the latest allowed call.
C3_WindowExpiry ==
    \A s \in Sites :
        LET h == hist[s]
            k == LastEmitBefore(h, Len(h) + 1) IN
        /\ \A j \in Timed(h) :
              LET i == LastEmitBefore(h, j) IN
              (i # 0 /\ h[j].now - h[i].now >= h[j].d) => h[j].res = "emit"
        /\ (k # 0 /\ \A t \in Threads : ~(pc[t] = "checked" /\ site[t] = s))
              => last[GateOf(s)] = h[k].now

C3_Witness ==
    \E s \in Sites :
        /\ Len(hist[s]) = 2
        /\ hist[s][1].res = "emit" /\ hist[s][2].res = "emit"
        /\ hist[s][2].d = 1 /\ hist[s][2].now - hist[s][1].now = 1
        /\ last[GateOf(s)] = hist[s][2].now
        /\ Len(sink[s]) = 2

\* C4: at a <level>_once site exactly the first call is allowed; every
\* later call, from any thread at any time, is not, and the logger gets at
\* most one record from the site.
C4_Once ==
    \A s \in Sites : IsOnce(s) =>
        LET h == hist[s] IN
        /\ h # <<>> => h[1].res = "emit"
        /\ \A j \in 2..Len(h) : h[j].res # "emit"
        /\ Len(sink[s]) <= 1

C4_Witness ==
    LET h == hist["infoOnce1"] IN
    /\ Len(h) = 5
    /\ h[1].res = "emit" /\ h[1].now = 0
    /\ \A j \in 2..5 : h[j].res = "suppress"
    /\ h[5].now = 2
    /\ Len(sink["infoOnce1"]) = 1

\* C5: a step of a call at one site leaves the gate, the decisions and the
\* logger records of every other site as they were, and the decisions taken
\* at a site are those of a gate of its own fed that site's calls alone.
GateState(s) == <<last[GateOf(s)], poisoned[GateOf(s)], holder[GateOf(s)]>>

StepSite(t) == IF pc[t] = "idle" THEN site'[t] ELSE site[t]

C5_Frame ==
    \A t \in Threads : pc'[t] # pc[t] =>
        \A s \in Sites \ {StepSite(t)} :
            /\ GateState(s)' = GateState(s)
            /\ hist'[s] = hist[s]
            /\ sink'[s] = sink[s]

C5_Alone == \A s \in Sites : \A j \in 1..Len(hist[s]) : hist[s][j].res = Alone(hist[s], j)

C5_CallSiteIsolation == [][C5_Frame /\ C5_Alone']_vars

C5_Witness ==
    /\ Len(hist["infoOnce1"]) = 1 /\ hist["infoOnce1"][1].res = "emit"
    /\ Len(hist["warnDebounce"]) = 1 /\ hist["warnDebounce"][1].res = "emit"
    /\ hist["warnDebounce"][1].d = DurationMax
    /\ hist["warnDebounce"][1].now = hist["infoOnce1"][1].now
    /\ Len(sink["infoOnce1"]) = 1 /\ Len(sink["warnDebounce"]) = 1

\* C6: when every call made so far at a site passed the same min_interval
\* and all their clock readings lie within that interval of each other,
\* exactly one of them was allowed, however the threads interleaved.
C6_ConcurrencySafety ==
    \A s \in Sites :
        LET h == hist[s] IN
        (/\ h # <<>>
         /\ SameInterval(h)
         /\ \A i, j \in Timed(h) : h[i].now - h[j].now < h[i].d)
            => Cardinality(Emits(h)) = 1

\* Two threads called the same fresh site at the same clock reading: one
\* came back allowed, the other suppressed.
C6_Witness ==
    \E s \in Sites : \E t, u \in Threads :
        /\ t # u
        /\ Len(hist[s]) = 2
        /\ hist[s][1].res = "emit" /\ hist[s][2].res = "suppress"
        /\ hist[s][1].d = 1 /\ hist[s][2].d = 1
        /\ hist[s][2].now = hist[s][1].now
        /\ ret[t].site = s /\ ret[t].res = "emit"
        /\ ret[u].site = s /\ ret[u].res = "suppress"

\* C7: at a site always called with the same min_interval d, the allowed
\* calls carry non-decreasing clock readings in the order they were
\* allowed, and any two of them lie at least d apart.
C7_NoDoubleEmission ==
    \A s \in Sites :
        LET h == hist[s] IN
        SameInterval(h) =>
            \A i, j \in Emits(h) : i < j =>
                /\ h[i].now <= h[j].now
                /\ h[j].now - h[i].now >= h[j].d

C7_Witness ==
    \E s \in Sites : \E t, u \in Threads :
        /\ t # u
        /\ Len(hist[s]) = 2
        /\ hist[s][1].res = "emit" /\ hist[s][2].res = "emit"
        /\ hist[s][1].d = 1 /\ hist[s][2].d = 1
        /\ hist[s][2].now - hist[s][1].now >= 1
        /\ ret[t].site = s /\ ret[t].res = "emit"
        /\ ret[u].site = s /\ ret[u].res = "emit"

\* C8: once the lock of a site is poisoned it stays poisoned, and every
\* step of a call at that site is the end of the call: it returns to its
\* caller without a panic, having evaluated and logged nothing, with
\* last_emission and the logger's records left as they were.
C8_Absorbed ==
    \A s \in Sites : poisoned[GateOf(s)] =>
        /\ poisoned'[GateOf(s)]
        /\ last'[GateOf(s)] = last[GateOf(s)]
        /\ sink'[s] = sink[s]
        /\ \A t \in Threads : (StepSite(t) = s /\ pc[t] # "idle" /\ pc'[t] # pc[t]) =>
              /\ pc'[t] = "idle"
              /\ ret'[t] = [site |-> s, res |-> "lockfail", args |-> FALSE]

C8_PoisonedLockAbsorbed == [][C8_Absorbed]_vars

C8_Witness ==
    \E s \in Sites : \E t \in Threads :
        /\ poisoned[GateOf(s)]
        /\ Len(hist[s]) = 2
        /\ hist[s][1].res = "emit" /\ hist[s][2].res = "lockfail"
        /\ ret[t] = [site |-> s, res |-> "lockfail", args |-> FALSE]
        /\ last[GateOf(s)] = hist[s][1].now
        /\ clock - last[GateOf(s)] >= hist[s][2].d

\* C9 as stated: a call that came back suppressed has evaluated its
\* formatting arguments.
C9_ArgsEvaluatedEveryCall ==
    \A t \in Threads : ret[t].res \in {"suppress", "lockfail"} => ret[t].args

\* C9 as amended: formatting arguments are evaluated only by a call the
\* gate allowed; a call that is suppressed, by the window or by a poisoned
\* lock, returns without having evaluated any argument or called the logger.
C9_ArgsOnlyWhenAllowed ==
    /\ \A t \in Threads : (pc[t] \in {"args", "sink"} \/ evaluated[t]) => should_log[t]
    /\ \A t \in Threads : ret[t].res \in {"suppress", "lockfail"} => ~ret[t].args
    /\ \A s \in Sites : Len(sink[s]) <= Cardinality(Emits(hist[s]))

C9_Witness ==
    \E s \in Sites : \E u \in Threads :
        /\ ret[u] = [site |-> s, res |-> "suppress", args |-> FALSE]
        /\ Len(hist[s]) = 2 /\ hist[s][2].res = "suppress"
        /\ hist[s][2].d = DurationMax
        /\ Len(sink[s]) = 1

\* C10 as test_once_macro states it: when a thread's info_once! at line 320
\* has logged and the same thread then runs the info_once! at line 321, the
\* second one is dropped.
C10_SecondInvocationDropped ==
    \A t \in Threads :
        (/\ ret[t].site = "infoOnce1" /\ ret[t].res = "emit"
         /\ site[t] = "infoOnce2" /\ pc[t] \in {"checked", "args", "sink"})
            => ~should_log[t]

\* C11: the Instant a gate stores is absent or a reading the clock has
\* already given, and no step makes it absent again or smaller.
C11_Step ==
    \A g \in Sites :
        /\ last'[g] \in {None} \cup (0..clock')
        /\ last[g] # None => (last'[g] # None /\ last'[g] >= last[g])

C11_MonotonicTimestamp == [][C11_Step]_vars

C11_Witness ==
    \E s \in Sites :
        /\ Len(hist[s]) = 2
        /\ hist[s][1].res = "emit" /\ hist[s][1].now = 0
        /\ hist[s][2].res = "emit" /\ hist[s][2].now = 2
        /\ hist[s][2].d = 0
        /\ last[GateOf(s)] = 2

\* C12: the only step that writes a gate's Instant is the `if` of a call
\* that is allowed, and it writes that call's own clock reading; every
\* step of a call that is suppressed, by the window or by a poisoned lock,
\* leaves every gate's Instant as it was.
C12_Step ==
    /\ \A t \in Threads : (pc[t] = "checked" /\ pc'[t] # pc[t]) =>
          LET s == site[t]
              g == GateOf(s)
              r == hist[s][Len(hist[s])] IN
          IF r.res = "emit"
            THEN last'[g] = r.now /\ r.now = now[t]
            ELSE last' = last /\ ret'[t].res = "suppress"
    /\ last' # last =>
          \E t \in Threads :
              /\ pc[t] = "checked" /\ pc'[t] # pc[t]
              /\ hist[site[t]][Len(hist[site[t]])].res = "emit"
    /\ \A t \in Threads : ret'[t].res = "lockfail" /\ ret'[t] # ret[t] => last' = last

C12_UpdateIffProceeds == [][C12_Step]_vars

C12_Witness ==
    \E s \in Sites :
        /\ Len(hist[s]) = 2
        /\ hist[s][1].res = "emit" /\ hist[s][1].now = 0
        /\ hist[s][2].res = "suppress" /\ hist[s][2].now = 1
        /\ last[GateOf(s)] = 0
        /\ \A t \in Threads : pc[t] = "idle"

\* C13: the window runs from the latest allowed call, not from the latest
\* attempt: taking a suppressed call out of a site's history changes none
\* of the other decisions, and with thirty seconds the calls that read the
\* clock at 0 s, 10 s, 35 s and 40 s are allowed, suppressed, allowed and
\* suppressed.
Remove(h, j) == [i \in 1..(Len(h) - 1) |-> IF i < j THEN h[i] ELSE h[i + 1]]

Readings(h) == [i \in 1..Len(h) |-> h[i].now]

Decisions(h) == [i \in 1..Len(h) |-> h[i].res]

C13_WindowFromLastEmission ==
    \A s \in Sites :
        LET h == hist[s] IN
        /\ \A j \in 1..Len(h) : h[j].res = "suppress" =>
              \A k \in 1..(Len(h) - 1) :
                  Alone(Remove(h, j), k) = Remove(h, j)[k].res
        /\ (Readings(h) = <<0, 10, 35, 40>> /\ \A i \in 1..Len(h) : h[i].d = ThirtySeconds)
              => Decisions(h) = <<"emit", "suppress", "emit", "suppress">>

C13_Witness ==
    LET h == hist["warnDebounce"] IN
    /\ Readings(h) = <<0, 10, 35, 40>>
    /\ \A i \in 1..Len(h) : h[i].d = ThirtySeconds
    /\ Decisions(h) = <<"emit", "suppress", "emit", "suppress">>
    /\ Len(sink["warnDebounce"]) = 2
    /\ last[GateOf("warnDebounce")] = 35

\* C14 as stated: the lock of a site is held only for the comparison and
\* the update of the timestamp: no thread is evaluating formatting
\* arguments or inside the logger while it holds the lock, so no thread
\* waiting for the lock is waiting for another thread's emission.
C14_ShortCriticalSection ==
    /\ \A t \in Threads :
          pc[t] \in {"args", "sink"} => holder[GateOf(site[t])] # t
    /\ \A t, u \in Threads :
          (pc[t] = "lock" /\ site[u] = site[t]) => pc[u] \notin {"args", "sink"}

\* C15 as stated: every call that has started eventually returns to its
\* caller, also one made at a site whose emission is still in progress on
\* the same thread.
C15_EveryCallReturns == \A t \in Threads : (pc[t] # "idle") ~> (pc[t] = "idle")

\* C16: a gate becomes poisoned only by the step in which the thread that
\* holds its lock panics inside the log macro; a call fails on the lock
\* only at a gate poisoned that way, and every other call that is not
\* allowed read the clock less than its min_interval after the latest
\* allowed call.
C16_Cause ==
    \A g \in Sites : (~poisoned[g] /\ poisoned'[g]) =>
        \E t \in Threads :
            /\ holder[g] = t /\ GateOf(site[t]) = g
            /\ pc[t] \in {"args", "sink"}
            /\ pc'[t] = "idle" /\ ret'[t].res = "panic"

C16_Suppressions ==
    \A s \in Sites : \A j \in 1..Len(hist[s]) :
        LET h == hist[s]
            i == LastEmitBefore(h, j) IN
        /\ h[j].res = "lockfail" => (poisoned[GateOf(s)] /\ i # 0)
        /\ h[j].res = "suppress" => (i # 0 /\ h[j].now - h[i].now < h[j].d)

C16_LockFailureSingleCause == [][C16_Cause /\ C16_Suppressions']_vars

C16_Witness ==
    \E s \in Sites : \E t, u \in Threads :
        /\ t # u
        /\ poisoned[GateOf(s)]
        /\ ret[t].site = s /\ ret[t].res = "panic"
        /\ ret[u].site = s /\ ret[u].res = "lockfail"
        /\ Len(hist[s]) = 2
        /\ hist[s][1].res = "emit" /\ hist[s][2].res = "lockfail"

\* C17: at most one thread at a time is inside the log macro of a site,
\* and the logger receives the site's records in the order of the clock
\* readings their calls recorded (equal readings can only follow each other
\* with a min_interval of zero), each from a call that was allowed.
InLog(s) == {t \in Threads : pc[t] \in {"args", "sink"} /\ site[t] = s}

EmitReadings(h) == {h[i].now : i \in Emits(h)}

C17_Serialized ==
    \A s \in Sites :
        /\ Cardinality(InLog(s)) <= 1
        /\ \A t \in InLog(s) : holder[GateOf(s)] = t
        /\ \A i, j \in 1..Len(sink[s]) : i < j => sink[s][i].at <= sink[s][j].at
        /\ \A i \in 1..Len(sink[s]) :
              /\ sink[s][i].at \in EmitReadings(hist[s])
              /\ sink[s][i].level = Level(s)

C17_Witness ==
    \E s \in Sites : \E t, u \in Threads :
        /\ t # u
        /\ Len(sink[s]) = 2
        /\ sink[s][1].at < sink[s][2].at
        /\ ret[t].site = s /\ ret[t].res = "emit"
        /\ ret[u].site = s /\ ret[u].res = "emit"
        /\ hist[s][1].d = 0

\* C18: when a call passes another min_interval than the call that was
\* allowed last at its site, it is allowed exactly when its clock reading
\* lies at least its own min_interval after that call's: the interval of
\* the earlier call plays no part, also when it was the longer one.
C18_CurrentIntervalDecides ==
    \A s \in Sites : \A j \in Timed(hist[s]) :
        LET h == hist[s]
            i == LastEmitBefore(h, j) IN
        (i # 0 /\ h[i].d # h[j].d) =>
            (h[j].res = "emit" <=> h[j].now - h[i].now >= h[j].d)

\* Allowed with Duration::MAX, then allowed again one tick later by a call
\* that passes one tick.
C18_Witness ==
    \E s \in Sites :
        /\ Len(hist[s]) = 2
        /\ hist[s][1].res = "emit" /\ hist[s][1].d = DurationMax
        /\ hist[s][2].res = "emit" /\ hist[s][2].d = 1
        /\ hist[s][2].now - hist[s][1].now = 1
        /\ last[GateOf(s)] = hist[s][2].now

\* C19: while the log macro of an allowed call runs, the gate already
\* stores that call's clock reading and the call holds the lock; when the
\* argument evaluation or the logger panics, the gate is left poisoned with
\* that reading, and from then on no call at the site is allowed and the
\* logger gets nothing more from it (nothing at all, for a once site whose
\* first emission panicked before the logger was reached).
C19_Step ==
    /\ \A t \in Threads : (pc'[t] \in {"args", "sink"} /\ should_log'[t]) =>
          /\ last'[GateOf(site'[t])] = now'[t]
          /\ holder'[GateOf(site'[t])] = t
    /\ \A t \in Threads :
          (pc[t] \in {"args", "sink"} /\ pc'[t] = "idle" /\ ret'[t].res = "panic") =>
              /\ poisoned'[GateOf(site[t])]
              /\ last'[GateOf(site[t])] = now[t]
    /\ \A s \in Sites : poisoned[GateOf(s)] =>
          /\ Emits(hist'[s]) = Emits(hist[s])
          /\ sink'[s] = sink[s]
          /\ last'[GateOf(s)] = last[GateOf(s)]
          /\ InLog(s)' = {}

C19_PanicLeavesGateShut == [][C19_Step]_vars

C19_Witness ==
    LET h == hist["infoOnce1"] IN
    /\ poisoned[GateOf("infoOnce1")]
    /\ Len(h) = 2
    /\ h[1].res = "emit" /\ h[2].res = "lockfail"
    /\ sink["infoOnce1"] = <<>>
    /\ last[GateOf("infoOnce1")] = h[1].now
    /\ clock > h[1].now

====
